---- MODULE Spec2Model ----
(***************************************************************************)
(* Model of the editable contacts table of src/src/index.js: the           *)
(* useLocalStorage hook (lazy load, save effect), the App component's      *)
(* mount effect, its five mutation handlers, the filter input and the      *)
(* derived filtered view.                                                   *)
(*                                                                         *)
(* A JavaScript string is a sequence of one-character strings.  A JSON     *)
(* text is a sequence of tokens.  A JavaScript value is a record           *)
(* [kind, items]: kind is "array", "null", "number" or "object"; items is  *)
(* the sequence of row objects of an array, the one object of an "object", *)
(* and empty otherwise.  A row object is [name, mobile]; a property the    *)
(* object does not have reads as Undefined.                                *)
(***************************************************************************)
EXTENDS Integers, Sequences, FiniteSets, TLC

VARIABLES
    pc,         \* "unloaded" | "mounted" | "crashed": the page's life cycle
    storage,    \* [present, text]: the localStorage slot under key "rows"
    state,      \* the useState cell of useLocalStorage (App's `rows`)
    filter,     \* the useState cell `filter` of App
    effects,    \* passive effects committed and not yet flushed, in order
    prev,       \* the value of the `prev` the last state updater was applied to
    held,       \* that `prev` array as it reads after the updater has run
    lastOp,     \* [op, index, field, value]: the last event handled
    saveLog,    \* the values handed to setItem since lastOp began, in order
    thrown,     \* what the catch blocks of useLocalStorage caught since lastOp began, in order
    written,    \* <<>>, or <<[snap, late]>>: the last value setItem stored, and whether
                \* a setItem had thrown since the one before
    outage      \* a setItem has thrown since the last one that stored

vars == <<pc, storage, state, filter, effects, prev, held, lastOp, saveLog, thrown,
          written, outage>>

(***************************************************************************)
(* Bounds of the model.                                                    *)
(***************************************************************************)
MaxRows == 3

\* the longest array of the behaviours with a failing localStorage
MaxRowsFail == 2

\* the values typed into a cell (e.target.value)
Values == { <<>>, <<"A", "b">> }

\* the values typed into the filter input
Queries == { <<>>, <<"B">>, <<"x">> }

Fields == {"name", "mobile"}

(***************************************************************************)
(* JavaScript values.                                                      *)
(***************************************************************************)
Undefined == <<"undefined">>

Row(n, m) == [name |-> n, mobile |-> m]

BlankRow == Row(<<>>, <<>>)

Arr(items) == [kind |-> "array", items |-> items]

JsNull == [kind |-> "null", items |-> <<>>]

JsNumber == [kind |-> "number", items |-> <<>>]

JsObject(r) == [kind |-> "object", items |-> <<r>>]

\* the second argument of useLocalStorage("rows", [{ name: "", mobile: "" }])
initialRows == Arr(<<BlankRow>>)

\* App's `rows`: the elements of the state array
rows == state.items

IsString(v) == v # Undefined

(***************************************************************************)
(* JSON texts, for the fragment of JSON the slot holds in this model:      *)
(* null, a number, an object or an array of objects whose members are      *)
(* "name" and "mobile" strings.                                            *)
(***************************************************************************)
Tok(t) == [tok |-> t, str |-> <<>>]

StrTok(s) == [tok |-> "string", str |-> s]

Drop(s, n) == SubSeq(s, n + 1, Len(s))

\* a property whose value is undefined is left out by JSON.stringify
stringifyMember(r, key) ==
    IF IsString(r[key]) THEN <<StrTok(<<key>>), Tok(":"), StrTok(r[key])>> ELSE <<>>

\* the serialization that leaves the mobile out
stringifyRowNameOnly(r) ==
    <<Tok("{")>> \o stringifyMember(r, "name") \o <<Tok("}")>>

stringifyRow(r) ==
    <<Tok("{")>>
    \o stringifyMember(r, "name")
    \o (IF IsString(r.name) /\ IsString(r.mobile) THEN <<Tok(",")>> ELSE <<>>)
    \o stringifyMember(r, "mobile")
    \o <<Tok("}")>>

RECURSIVE stringifyItems(_)
stringifyItems(items) ==
    IF items = <<>> THEN <<>>
    ELSE IF Len(items) = 1 THEN stringifyRow(items[1])
    ELSE stringifyRow(items[1]) \o <<Tok(",")>> \o stringifyItems(Tail(items))

\* JSON.stringify(state)
stringify(v) ==
    CASE v.kind = "null"   -> <<Tok("null")>>
      [] v.kind = "number" -> <<Tok("5")>>
      [] v.kind = "object" -> stringifyRow(v.items[1])
      [] v.kind = "array"  -> <<Tok("[")>> \o stringifyItems(v.items) \o <<Tok("]")>>

SyntaxError == [ok |-> FALSE, row |-> BlankRow, items |-> <<>>, rest |-> <<>>]

\* the members of an object, after "{": key ":" string, then "," or "}"
RECURSIVE parseMembers(_, _)
parseMembers(toks, r) ==
    IF /\ Len(toks) >= 4
       /\ toks[1].tok = "string"
       /\ toks[1].str \in { <<"name">>, <<"mobile">> }
       /\ toks[2] = Tok(":")
       /\ toks[3].tok = "string"
    THEN LET r2 == [r EXCEPT ![toks[1].str[1]] = toks[3].str]
         IN  IF toks[4] = Tok("}")
             THEN [ok |-> TRUE, row |-> r2, items |-> <<>>, rest |-> Drop(toks, 4)]
             ELSE IF toks[4] = Tok(",") THEN parseMembers(Drop(toks, 4), r2)
             ELSE SyntaxError
    ELSE SyntaxError

parseObject(toks) ==
    IF Len(toks) >= 2 /\ toks[1] = Tok("{")
    THEN IF toks[2] = Tok("}")
         THEN [ok |-> TRUE, row |-> Row(Undefined, Undefined), items |-> <<>>,
               rest |-> Drop(toks, 2)]
         ELSE parseMembers(Drop(toks, 1), Row(Undefined, Undefined))
    ELSE SyntaxError

\* the elements of an array, after "[": object, then "," or "]"
RECURSIVE parseElements(_, _)
parseElements(toks, acc) ==
    LET o == parseObject(toks)
    IN  IF o.ok /\ o.rest # <<>>
        THEN IF o.rest[1] = Tok("]")
             THEN [ok |-> TRUE, row |-> BlankRow, items |-> Append(acc, o.row),
                   rest |-> Drop(o.rest, 1)]
             ELSE IF o.rest[1] = Tok(",")
                  THEN parseElements(Drop(o.rest, 1), Append(acc, o.row))
                  ELSE SyntaxError
        ELSE SyntaxError

\* JSON.parse(raw): [ok, value]; ok = FALSE is a SyntaxError thrown
parse(raw) ==
    LET bad == [ok |-> FALSE, value |-> JsNull]
    IN  IF raw = <<>> THEN bad
        ELSE IF raw = <<Tok("null")>> THEN [ok |-> TRUE, value |-> JsNull]
        ELSE IF raw = <<Tok("5")>> THEN [ok |-> TRUE, value |-> JsNumber]
        ELSE IF raw[1] = Tok("{")
             THEN LET o == parseObject(raw)
                  IN  IF o.ok /\ o.rest = <<>>
                      THEN [ok |-> TRUE, value |-> JsObject(o.row)] ELSE bad
        ELSE IF raw[1] = Tok("[")
             THEN IF raw = <<Tok("["), Tok("]")>>
                  THEN [ok |-> TRUE, value |-> Arr(<<>>)]
                  ELSE LET a == parseElements(Drop(raw, 1), <<>>)
                       IN  IF a.ok /\ a.rest = <<>>
                           THEN [ok |-> TRUE, value |-> Arr(a.items)] ELSE bad
        ELSE bad

(***************************************************************************)
(* The localStorage slot.                                                  *)
(***************************************************************************)
NoSlot == [present |-> FALSE, text |-> <<>>]

Slot(text) == [present |-> TRUE, text |-> text]

\* the literal string {not json
NotJson == <<Tok("{"), Tok("not"), Tok("json")>>

RowSet == { Row(n, m) : n \in Values, m \in Values }

\* the arrays of 1..MaxRows rows
Collections == UNION { [1..n -> RowSet] : n \in 1..MaxRows }

\* what the slot can hold when the page is first loaded
SlotContents ==
    { NoSlot, Slot(<<>>), Slot(NotJson),
      Slot(stringify(JsNull)), Slot(stringify(JsNumber)),
      Slot(stringify(JsObject(Row(Undefined, Undefined)))),
      Slot(stringify(Arr(<<>>))),
      Slot(stringify(Arr(<<Row(Undefined, Undefined)>>))) }
    \cup { Slot(stringify(Arr(c))) : c \in Collections }

\* the load that keeps what it read when the text does not parse
loadUnparsedAsNull(slot, initial, getThrows) ==
    IF getThrows THEN initial
    ELSE IF ~slot.present \/ slot.text = <<>> THEN initial
    ELSE IF parse(slot.text).ok THEN parse(slot.text).value
    ELSE JsNull

\* the lazy initial state of useLocalStorage(key, initial);
\* getThrows: localStorage.getItem throws
load(slot, initial, getThrows) ==
    IF getThrows THEN initial
    ELSE IF ~slot.present \/ slot.text = <<>> THEN initial
    ELSE IF parse(slot.text).ok THEN parse(slot.text).value
    ELSE initial

(***************************************************************************)
(* Strings.                                                                *)
(***************************************************************************)
UpperCase == <<"A", "B", "C", "D", "E", "F", "G", "H", "I", "J", "K", "L", "M",
               "N", "O", "P", "Q", "R", "S", "T", "U", "V", "W", "X", "Y", "Z">>

LowerCase == <<"a", "b", "c", "d", "e", "f", "g", "h", "i", "j", "k", "l", "m",
               "n", "o", "p", "q", "r", "s", "t", "u", "v", "w", "x", "y", "z">>

lowerChar(c) ==
    IF \E k \in 1..26 : UpperCase[k] = c
    THEN LowerCase[CHOOSE k \in 1..26 : UpperCase[k] = c]
    ELSE c

\* String.prototype.toLowerCase
toLowerCase(s) == [k \in 1..Len(s) |-> lowerChar(s[k])]

\* String.prototype.includes
includes(s, q) ==
    \E k \in 0..(Len(s) - Len(q)) : SubSeq(s, k + 1, k + Len(q)) = q

(***************************************************************************)
(* The state updaters handed to setRows.  Indices are zero-based as in    *)
(* the source; element i of a JavaScript array is element i + 1 of the     *)
(* sequence.                                                               *)
(***************************************************************************)
\* the edit that does not spread the old row
changeUpdaterNoSpread(p, index, field, value) ==
    [k \in 1..Len(p) |->
        IF k - 1 = index THEN [Row(Undefined, Undefined) EXCEPT ![field] = value] ELSE p[k]]

\* the edit that is dropped when the mobile typed has fewer than three
\* characters or more than twenty
changeUpdaterChecked(p, index, field, value) ==
    IF field = "mobile" /\ (Len(value) < 3 \/ Len(value) > 20) THEN p
    ELSE [k \in 1..Len(p) |-> IF k - 1 = index THEN [p[k] EXCEPT ![field] = value] ELSE p[k]]

\* the edit without the test i === index: the field is set in every row
changeUpdaterEveryRow(p, index, field, value) ==
    [k \in 1..Len(p) |-> [p[k] EXCEPT ![field] = value]]

\* prev.map((r, i) => i === index ? { ...r, [field]: value } : r)
changeUpdater(p, index, field, value) ==
    [k \in 1..Len(p) |-> IF k - 1 = index THEN [p[k] EXCEPT ![field] = value] ELSE p[k]]

\* the updater that puts the blank row first
addRowUpdaterFirst(p) == <<BlankRow>> \o p

\* [...prev, { name: "", mobile: "" }]
addRowUpdater(p) == Append(p, BlankRow)

\* the updater that drops the first row instead of the last
removeLastUpdaterDropFirst(p) == IF Len(p) > 1 THEN Tail(p) ELSE p

\* the removal that keeps two rows: prev.length > 2
removeLastUpdaterKeepsTwo(p) == IF Len(p) > 2 THEN SubSeq(p, 1, Len(p) - 1) ELSE p

\* prev.length > 1 ? prev.slice(0, -1) : prev
removeLastUpdater(p) == IF Len(p) > 1 THEN SubSeq(p, 1, Len(p) - 1) ELSE p

\* the updater that always returns a new array
removeLastNeverSameRef(p) == FALSE

\* the updater of handleRemoveLast returns `prev` itself when it removes nothing
removeLastSameRef(p) == ~(Len(p) > 1)

\* the filter that counts the elements from one
RECURSIVE filterOutFromOne(_, _, _)
filterOutFromOne(p, index, k) ==
    IF k > Len(p) THEN <<>>
    ELSE (IF k # index THEN <<p[k]>> ELSE <<>>) \o filterOutFromOne(p, index, k + 1)

\* prev.filter((_, i) => i !== index)
RECURSIVE filterOut(_, _, _)
filterOut(p, index, k) ==
    IF k > Len(p) THEN <<>>
    ELSE (IF k - 1 # index THEN <<p[k]>> ELSE <<>>) \o filterOut(p, index, k + 1)

\* the updater that returns the filtered array even when it is empty
removeAtUpdaterNoFallback(p, index) == filterOut(p, index, 1)

removeAtUpdater(p, index) ==
    LET next == filterOut(p, index, 1)
    IN  IF Len(next) # 0 THEN next ELSE <<BlankRow>>

\* the start of Array.prototype.splice: negative counts from the end, clamped
spliceStart(len, start) ==
    IF start < 0 THEN (IF len + start < 0 THEN 0 ELSE len + start)
    ELSE IF start > len THEN len ELSE start

\* the insertion at index instead of index + 1
insertAtUpdaterBefore(p, index) ==
    LET at == spliceStart(Len(p), index)
    IN  SubSeq(p, 1, at) \o <<BlankRow>> \o SubSeq(p, at + 1, Len(p))

\* the insertion of a copy of the row clicked
insertAtUpdaterCopy(p, index) ==
    LET at == spliceStart(Len(p), index + 1)
        new == IF index + 1 \in 1..Len(p) THEN p[index + 1] ELSE BlankRow
    IN  SubSeq(p, 1, at) \o <<new>> \o SubSeq(p, at + 1, Len(p))

\* next = [...prev]; next.splice(index + 1, 0, { name: "", mobile: "" })
insertAtUpdater(p, index) ==
    LET at == spliceStart(Len(p), index + 1)
    IN  SubSeq(p, 1, at) \o <<BlankRow>> \o SubSeq(p, at + 1, Len(p))

(***************************************************************************)
(* What each updater leaves in the array `prev` it was applied to: every   *)
(* updater of the source builds a new array, and handleChange a new row,   *)
(* so the old array reads as before.                                       *)
(***************************************************************************)
\* the edit that assigns r[field] = value in the row of the old array
changeLeavesAssigned(p, index, field, value) == changeUpdater(p, index, field, value)

\* prev.map(...) with { ...r, [field]: value }: a new array and a new row
changeLeaves(p, index, field, value) == p

\* [...prev, blank]: a new array
addRowLeaves(p) == p

\* prev.slice(0, -1), or prev itself untouched
removeLastLeaves(p) == p

\* prev.filter(...): a new array
removeAtLeaves(p, index) == p

\* next = [...prev] is a copy, and splice changes next
insertAtLeaves(p, index) == p

(***************************************************************************)
(* The derived view and the render of App.                                 *)
(***************************************************************************)
\* the predicate that lowers the fields and not the query
matchesQueryAsTyped(r, f) ==
    IF f = <<>> THEN TRUE
    ELSE includes(toLowerCase(r.name), f) \/ includes(toLowerCase(r.mobile), f)

\* the predicate of rows.map(...).filter(...)
matches(r, f) ==
    IF f = <<>> THEN TRUE
    ELSE LET q == toLowerCase(f)
         IN  includes(toLowerCase(r.name), q) \/ includes(toLowerCase(r.mobile), q)

\* the rows numbered from one
withIndexFromOne(items) ==
    [k \in 1..Len(items) |->
        [name |-> items[k].name, mobile |-> items[k].mobile, _i |-> k]]

\* rows.map((r, i) => ({ ...r, _i: i }))
withIndex(items) ==
    [k \in 1..Len(items) |->
        [name |-> items[k].name, mobile |-> items[k].mobile, _i |-> k - 1]]

\* the view that numbers the rows after filtering them
filteredOfByPosition(items, f) ==
    withIndex(SelectSeq(items, LAMBDA r : matches(r, f)))

\* const filtered = rows.map((r, i) => ({ ...r, _i: i })).filter(...)
filteredOf(items, f) == SelectSeq(withIndex(items), LAMBDA r : matches(r, f))

filtered == filteredOf(rows, filter)

\* the render of App throws a TypeError: rows.map on a value that is not an
\* array, or toLowerCase on a property that is undefined
renderThrows(s, f) ==
    \/ s.kind # "array"
    \/ /\ f # <<>>
       /\ \E k \in 1..Len(s.items) :
            \/ ~IsString(s.items[k].name)
            \/ /\ ~includes(toLowerCase(s.items[k].name), toLowerCase(f))
               /\ ~IsString(s.items[k].mobile)

\* const validMobile = (v) => /^[0-9+\-() ]{3,20}$/.test(v || "")
MobileChars == {"0", "1", "2", "3", "4", "5", "6", "7", "8", "9",
                "+", "-", "(", ")", " "}

\* the test without the anchors ^ and $: three characters of the class in a row
validMobileUnanchored(v) ==
    LET t == IF IsString(v) THEN v ELSE <<>>
    IN  \E k \in 0..(Len(t) - 3) : \A j \in 1..3 : t[k + j] \in MobileChars

validMobile(v) ==
    LET t == IF IsString(v) THEN v ELSE <<>>
    IN  /\ Len(t) >= 3
        /\ Len(t) <= 20
        /\ \A k \in 1..Len(t) : t[k] \in MobileChars

\* rows[row._i].mobile && !validMobile(rows[row._i].mobile): the row shows
\* "Invalid phone format"
showsHint(r) == IsString(r.mobile) /\ r.mobile # <<>> /\ ~validMobile(r.mobile)

(***************************************************************************)
(* The state machine.  An event handler runs only when the passive         *)
(* effects of the previous commit have been flushed: React flushes them    *)
(* before it handles the next discrete event and before the next render.   *)
(***************************************************************************)
Op(op, index, field, value) ==
    [op |-> op, index |-> index, field |-> field, value |-> value]

\* the indices a caller other than the rendered rows may pass to a handler
Indices == (0 - 2)..MaxRows

\* the slot contents the behaviours with a failing localStorage start from
FewSlotContents ==
    { NoSlot, Slot(<<>>), Slot(NotJson),
      Slot(stringify(JsNull)), Slot(stringify(JsNumber)),
      Slot(stringify(Arr(<<>>))),
      Slot(stringify(Arr(<<Row(<<"A", "b">>, <<>>), BlankRow>>))) }

InitWith(slots) ==
    /\ pc = "unloaded"
    /\ storage \in slots
    /\ state = initialRows
    /\ filter = <<>>
    /\ effects = <<>>
    /\ prev = initialRows
    /\ held = initialRows
    /\ lastOp = Op("none", 0, "", <<>>)
    /\ saveLog = <<>>
    /\ thrown = <<>>
    /\ written = <<>>
    /\ outage = FALSE

Init == InitWith(SlotContents)

InitFail == InitWith(FewSlotContents)

\* the mount whose save effect waits for the first change of the state
MountWithoutSave(getThrows) ==
    /\ pc = "unloaded"
    /\ state' = load(storage, initialRows, getThrows)
    /\ filter' = <<>>
    /\ IF renderThrows(state', filter')
       THEN pc' = "crashed" /\ effects' = <<>>
       ELSE pc' = "mounted" /\ effects' = <<"ensure">>
    /\ lastOp' = Op("initialize", 0, "", <<>>)
    /\ saveLog' = <<>>
    /\ thrown' = IF getThrows THEN <<"getItem">>
                 ELSE IF storage.present /\ storage.text # <<>> /\ ~parse(storage.text).ok
                      THEN <<"parse">> ELSE <<>>
    /\ UNCHANGED <<storage, prev, held, written, outage>>

\* ReactDOM.render(<App />): the lazy initial state, then the first render
MountWith(getThrows) ==
    /\ pc = "unloaded"
    /\ state' = load(storage, initialRows, getThrows)
    /\ filter' = <<>>
    /\ IF renderThrows(state', filter')
       THEN pc' = "crashed" /\ effects' = <<>>
       ELSE pc' = "mounted" /\ effects' = <<"save", "ensure">>
    /\ lastOp' = Op("initialize", 0, "", <<>>)
    /\ saveLog' = <<>>
    /\ thrown' = IF getThrows THEN <<"getItem">>
                 ELSE IF storage.present /\ storage.text # <<>> /\ ~parse(storage.text).ok
                      THEN <<"parse">> ELSE <<>>
    /\ UNCHANGED <<storage, prev, held, written, outage>>

Mount == MountWith(FALSE)

MountGetItemThrows == MountWith(TRUE)

\* the effect without its try block: an exception of setItem takes the page down
SaveEffectUncaught(setThrows) ==
    /\ pc = "mounted"
    /\ effects # <<>>
    /\ Head(effects) = "save"
    /\ effects' = IF setThrows THEN <<>> ELSE Tail(effects)
    /\ pc' = IF setThrows THEN "crashed" ELSE pc
    /\ saveLog' = Append(saveLog, state)
    /\ storage' = IF setThrows THEN storage ELSE Slot(stringify(state))
    /\ thrown' = IF setThrows THEN Append(thrown, "setItem") ELSE thrown
    /\ written' = IF setThrows THEN written ELSE <<[snap |-> state, late |-> outage]>>
    /\ outage' = setThrows
    /\ UNCHANGED <<state, filter, prev, held, lastOp>>

\* the effect that stops writing once a setItem has thrown
SaveEffectGivesUp(setThrows) ==
    /\ pc = "mounted"
    /\ effects # <<>>
    /\ Head(effects) = "save"
    /\ effects' = Tail(effects)
    /\ saveLog' = Append(saveLog, state)
    /\ storage' = IF setThrows \/ outage THEN storage ELSE Slot(stringify(state))
    /\ thrown' = IF setThrows THEN Append(thrown, "setItem") ELSE thrown
    /\ written' = IF setThrows THEN written ELSE <<[snap |-> state, late |-> outage]>>
    /\ outage' = (setThrows \/ outage)
    /\ UNCHANGED <<pc, state, filter, prev, held, lastOp>>

\* the effect of useLocalStorage: localStorage.setItem(key, JSON.stringify(state))
SaveEffectWith(setThrows) ==
    /\ pc = "mounted"
    /\ effects # <<>>
    /\ Head(effects) = "save"
    /\ effects' = Tail(effects)
    /\ saveLog' = Append(saveLog, state)
    /\ storage' = IF setThrows THEN storage ELSE Slot(stringify(state))
    /\ thrown' = IF setThrows THEN Append(thrown, "setItem") ELSE thrown
    /\ written' = IF setThrows THEN written ELSE <<[snap |-> state, late |-> outage]>>
    /\ outage' = setThrows
    /\ UNCHANGED <<pc, state, filter, prev, held, lastOp>>

SaveEffect == SaveEffectWith(FALSE)

SaveEffectThrows == SaveEffectWith(TRUE)

\* the mount effect of App:
\* if (!rows || rows.length === 0) setRows([{ name: "", mobile: "" }])
MountEffect ==
    /\ pc = "mounted"
    /\ effects # <<>>
    /\ Head(effects) = "ensure"
    /\ IF state.kind # "array" \/ Len(rows) = 0
       THEN IF renderThrows(Arr(<<BlankRow>>), filter)
            THEN pc' = "crashed" /\ effects' = <<>> /\ UNCHANGED state
            ELSE /\ pc' = "mounted"
                 /\ effects' = Tail(effects) \o <<"save">>
                 /\ state' = Arr(<<BlankRow>>)
       ELSE /\ effects' = Tail(effects)
            /\ UNCHANGED <<pc, state>>
    /\ UNCHANGED <<storage, filter, prev, held, lastOp, saveLog, thrown, written, outage>>

\* the setRows whose new state schedules no save: an effect that does not
\* depend on the state
setRowsNoEffect(next, sameRef, leaves, op) ==
    /\ pc = "mounted"
    /\ effects = <<>>
    /\ prev' = state
    /\ held' = Arr(leaves)
    /\ lastOp' = op
    /\ saveLog' = <<>>
    /\ thrown' = <<>>
    /\ IF sameRef
       THEN UNCHANGED <<pc, state, effects>>
       ELSE IF renderThrows(Arr(next), filter)
            THEN pc' = "crashed" /\ effects' = <<>> /\ UNCHANGED state
            ELSE pc' = "mounted" /\ effects' = <<>> /\ state' = Arr(next)
    /\ UNCHANGED <<storage, filter, written, outage>>

\* setRows(updater) from an event handler: the updater is applied to the
\* current state; a result that is the same reference bails out of the
\* render, any other result is rendered and its effect is scheduled; a
\* render that throws unmounts the page and commits nothing; `leaves` is
\* what the updater leaves in the array it was applied to
setRows(next, sameRef, leaves, op) ==
    /\ pc = "mounted"
    /\ effects = <<>>
    /\ prev' = state
    /\ held' = Arr(leaves)
    /\ lastOp' = op
    /\ saveLog' = <<>>
    /\ thrown' = <<>>
    /\ IF sameRef
       THEN UNCHANGED <<pc, state, effects>>
       ELSE IF renderThrows(Arr(next), filter)
            THEN pc' = "crashed" /\ effects' = <<>> /\ UNCHANGED state
            ELSE pc' = "mounted" /\ effects' = <<"save">> /\ state' = Arr(next)
    /\ UNCHANGED <<storage, filter, written, outage>>

handleChange(index, field, value) ==
    setRows(changeUpdater(rows, index, field, value), FALSE,
            changeLeaves(rows, index, field, value),
            Op("editField", index, field, value))

handleAddRow ==
    /\ Len(rows) < MaxRows
    /\ setRows(addRowUpdater(rows), FALSE, addRowLeaves(rows),
               Op("appendRow", 0, "", <<>>))

handleRemoveLast ==
    setRows(removeLastUpdater(rows), removeLastSameRef(rows),
            removeLastLeaves(rows),
            Op("removeLast", 0, "", <<>>))

handleRemoveAt(index) ==
    setRows(removeAtUpdater(rows, index), FALSE, removeAtLeaves(rows, index),
            Op("removeAt", index, "", <<>>))

handleInsertAt(index) ==
    /\ Len(rows) < MaxRows
    /\ setRows(insertAtUpdater(rows, index), FALSE, insertAtLeaves(rows, index),
               Op("insertAfter", index, "", <<>>))

\* the `_i` of the rows on screen
shown == { filtered[k]._i : k \in 1..Len(filtered) }

\* what the input of a cell shows
cellValue(r, field) == IF IsString(r[field]) THEN r[field] ELSE <<>>

\* onChange={handleChange(row._i, field)}: a change event carries a new value
EditCell ==
    /\ pc = "mounted"
    /\ \E i \in shown, field \in Fields, value \in Values :
         /\ value # cellValue(rows[i + 1], field)
         /\ handleChange(i, field, value)

\* onClick={handleAddRow}
ClickAddRow == handleAddRow

\* onClick={handleRemoveLast}
ClickDeleteLast == handleRemoveLast

\* onClick={handleRemoveAt(row._i)}
ClickRemove == pc = "mounted" /\ \E i \in shown : handleRemoveAt(i)

\* onClick={handleInsertAt(row._i)}
ClickAdd == pc = "mounted" /\ \E i \in shown : handleInsertAt(i)

\* the filter kept in a hook that saves: a save effect follows each query
FilterChangeSaves ==
    /\ pc = "mounted"
    /\ effects = <<>>
    /\ \E q \in Queries :
         /\ q # filter
         /\ filter' = q
         /\ lastOp' = Op("filter", 0, "", q)
         /\ pc' = IF renderThrows(state, q) THEN "crashed" ELSE "mounted"
         /\ effects' = IF renderThrows(state, q) THEN <<>> ELSE <<"save">>
    /\ prev' = state
    /\ held' = state
    /\ saveLog' = <<>>
    /\ thrown' = <<>>
    /\ UNCHANGED <<storage, state, written, outage>>

\* onChange={(e) => setFilter(e.target.value)}
FilterChange ==
    /\ pc = "mounted"
    /\ effects = <<>>
    /\ \E q \in Queries :
         /\ q # filter
         /\ filter' = q
         /\ lastOp' = Op("filter", 0, "", q)
         /\ pc' = IF renderThrows(state, q) THEN "crashed" ELSE "mounted"
    /\ prev' = state
    /\ held' = state
    /\ saveLog' = <<>>
    /\ thrown' = <<>>
    /\ UNCHANGED <<storage, state, effects, written, outage>>

\* the page is closed and opened again
Reload ==
    /\ pc \in {"mounted", "crashed"}
    /\ effects = <<>>
    /\ pc' = "unloaded"
    /\ prev' = state
    /\ held' = state
    /\ state' = initialRows
    /\ filter' = <<>>
    /\ lastOp' = Op("reload", 0, "", <<>>)
    /\ saveLog' = <<>>
    /\ thrown' = <<>>
    /\ UNCHANGED <<storage, effects, written, outage>>

\* the handlers called with any index, field and value
CallChange == \E i \in Indices, field \in Fields, value \in Values : handleChange(i, field, value)

CallRemoveAt == \E i \in Indices : handleRemoveAt(i)

CallInsertAt == \E i \in Indices : handleInsertAt(i)

\* the mobiles pasted into a cell
PhoneExample == <<"+", "1", " ", "(", "5", "5", "5", ")", " ", "1", "2", "3", "-",
                  "4", "5", "6", "7">>

Mobiles ==
    { <<>>, <<"1", "2">>, <<"1", "2", "3">>, <<"a", "b", "c">>, PhoneExample,
      [k \in 1..20 |-> "7"], [k \in 1..21 |-> "7"] }

\* onChange={handleChange(row._i, "mobile")} with a pasted mobile
PasteMobile ==
    /\ pc = "mounted"
    /\ \E i \in shown, value \in Mobiles :
         /\ value # cellValue(rows[i + 1], "mobile")
         /\ handleChange(i, "mobile", value)

\* the user interface, localStorage working
Next ==
    \/ Mount
    \/ SaveEffect
    \/ MountEffect
    \/ EditCell
    \/ ClickAddRow
    \/ ClickDeleteLast
    \/ ClickRemove
    \/ ClickAdd
    \/ FilterChange
    \/ Reload

\* the buttons that add a row, on arrays shorter than MaxRowsFail
ShortClickAddRow == Len(rows) < MaxRowsFail /\ ClickAddRow

ShortClickAdd == Len(rows) < MaxRowsFail /\ ClickAdd

\* the user interface, localStorage throwing at will
NextFail ==
    \/ Mount
    \/ MountGetItemThrows
    \/ SaveEffect
    \/ SaveEffectThrows
    \/ MountEffect
    \/ EditCell
    \/ ShortClickAddRow
    \/ ClickDeleteLast
    \/ ClickRemove
    \/ ShortClickAdd
    \/ FilterChange
    \/ Reload

\* the handlers as functions of their arguments, localStorage working
NextApi ==
    \/ Mount
    \/ SaveEffect
    \/ MountEffect
    \/ CallChange
    \/ ClickAddRow
    \/ ClickDeleteLast
    \/ CallRemoveAt
    \/ CallInsertAt
    \/ Reload

\* the mobile cells of a page that starts without a slot
InitMobile == InitWith({NoSlot})

NextMobile ==
    \/ Mount
    \/ SaveEffect
    \/ MountEffect
    \/ PasteMobile
    \/ ShortClickAddRow
    \/ ClickDeleteLast
    \/ Reload

Spec == Init /\ [][Next]_vars

SpecFail == InitFail /\ [][NextFail]_vars

SpecApi == Init /\ [][NextApi]_vars

SpecMobile == InitMobile /\ [][NextMobile]_vars


(***************************************************************************)
(* The claims.                                                             *)
(***************************************************************************)
Mutations == {"editField", "appendRow", "insertAfter", "removeAt", "removeLast"}

RowA == Row(<<"A", "b">>, <<>>)

RowB == Row(<<>>, <<"A", "b">>)

\* C1: every entry of the filtered view carries the index _i of a row of the
\* collection with the same name and mobile; with the empty query the view
\* is the whole collection in order, entry k carrying index k; and an edit,
\* insert-after or remove issued from a row of the view acts on the index of
\* a row that was in the view.
C1_FilterIndexFidelity ==
    pc = "mounted" =>
        /\ \A k \in 1..Len(filtered) :
             /\ filtered[k]._i \in 0..(Len(rows) - 1)
             /\ rows[filtered[k]._i + 1].name = filtered[k].name
             /\ rows[filtered[k]._i + 1].mobile = filtered[k].mobile
        /\ filter = <<>> =>
             /\ Len(filtered) = Len(rows)
             /\ \A k \in 1..Len(filtered) : filtered[k]._i = k - 1
        /\ lastOp.op \in {"editField", "insertAfter", "removeAt"} =>
             /\ lastOp.index \in 0..(Len(prev.items) - 1)
             /\ matches(prev.items[lastOp.index + 1], filter)

\* a remove issued from the only row of a view that hides the first two rows
C1_Witness ==
    /\ pc = "mounted"
    /\ filter = <<"B">>
    /\ lastOp.op = "removeAt"
    /\ lastOp.index = 2
    /\ Len(prev.items) = 3
    /\ filteredOf(prev.items, filter) = <<[name |-> <<"A", "b">>, mobile |-> <<>>, _i |-> 2]>>
    /\ rows = <<BlankRow, BlankRow>>

\* C2: a removeAt or a removeLast leaves at least one row.
C2_NonEmptyUnderRemoval ==
    (pc = "mounted" /\ lastOp.op \in {"removeAt", "removeLast"}) =>
        (state.kind = "array" /\ Len(rows) >= 1)

\* the only row, not blank, has been removed
C2_Witness ==
    /\ pc = "mounted"
    /\ lastOp.op = "removeAt"
    /\ prev.items = <<RowA>>
    /\ rows = <<BlankRow>>


Operations == Mutations \cup {"initialize"}

\* the page is mounted and no effect is pending: the next event can be handled
Idle == pc = "mounted" /\ effects = <<>>

\* C3 as stated: when an operation is over, exactly one save has been
\* attempted, with the snapshot the operation produced.
C3_OneSavePerOperation ==
    (Idle /\ lastOp.op \in Operations) => saveLog = <<state>>

\* C3 as amended: an operation that replaces the collection is followed by
\* exactly one save attempt, with the new snapshot, before the next event is
\* handled; removeLast on a one-row collection attempts none and leaves the
\* collection as it is; initialize on an empty loaded array attempts two,
\* the empty array and then the single blank row.
C3_OneSavePerChange ==
    /\ (Idle /\ lastOp.op \in {"editField", "appendRow", "insertAfter", "removeAt"}) =>
          saveLog = <<state>>
    /\ (Idle /\ lastOp.op = "removeLast") =>
          IF Len(prev.items) > 1
          THEN saveLog = <<state>>
          ELSE saveLog = <<>> /\ state = prev
    /\ (Idle /\ lastOp.op = "initialize") =>
          \/ saveLog = <<state>> /\ Len(rows) >= 1
          \/ saveLog = <<Arr(<<>>), state>> /\ state = initialRows
    /\ (pc = "mounted" /\ lastOp.op \in Operations) => Len(saveLog) <= 2

\* removeLast on the only row: no save was attempted
C3_Witness ==
    /\ Idle
    /\ lastOp.op = "removeLast"
    /\ prev.items = <<RowB>>
    /\ state = prev
    /\ saveLog = <<>>

Fallbacks == {initialRows, Arr(<<>>), JsNull}

\* C4: with localStorage working, the state the page mounts with after a
\* reload is the state it held before the reload, and so is a load of the
\* slot with any fallback.
C4_RoundTrip ==
    [][lastOp.op = "reload" =>
          /\ state' = prev
          /\ \A fb \in Fallbacks : load(storage, fb, FALSE) = prev]_vars

\* three rows, not all blank, are back after a reload
C4_Witness ==
    /\ lastOp.op = "initialize"
    /\ pc = "mounted"
    /\ state = prev
    /\ rows = <<RowA, Row(<<"A", "b">>, <<"A", "b">>), RowB>>

\* C5: a save that throws changes nothing but the log of the caught
\* exceptions: the state, the filter and the slot stay, the page stays
\* mounted and the effect is done as after a save that succeeds; and the
\* slot only ever changes to the serialization of the state already held.
C5_FailingSaveSwallowed ==
    [][/\ (Len(thrown') > Len(thrown) /\ thrown'[Len(thrown')] = "setItem") =>
            /\ pc' = "mounted"
            /\ state' = state
            /\ filter' = filter
            /\ storage' = storage
            /\ effects' = Tail(effects)
            /\ saveLog' = Append(saveLog, state)
       /\ storage' # storage =>
            /\ storage' = Slot(stringify(state))
            /\ state' = state]_vars

\* an edit whose save threw: the edit is in memory, not in the slot
C5_Witness ==
    /\ Idle
    /\ lastOp.op = "editField"
    /\ thrown = <<"setItem">>
    /\ saveLog = <<state>>
    /\ rows[lastOp.index + 1][lastOp.field] = lastOp.value
    /\ storage # Slot(stringify(state))

\* the values of the model and their texts
RowSetU == { Row(n, m) : n \in Values \cup {Undefined}, m \in Values \cup {Undefined} }

JsonValues ==
    {JsNull, JsNumber}
    \cup { JsObject(r) : r \in RowSetU }
    \cup { Arr(c) : c \in UNION { [1..n -> RowSetU] : n \in 0..MaxRows } }

JsonTexts == { stringify(v) : v \in JsonValues }

\* the state is the one the lazy initializer returned
JustLoaded ==
    /\ lastOp.op = "initialize"
    /\ saveLog = <<>>
    /\ pc = "crashed" \/ effects = <<"save", "ensure">>

\* C6: the load returns the fallback when getItem throws, when the slot is
\* absent and when its text is not the text of a value; otherwise it returns
\* the value the text is the serialization of.
C6_LoadFallsBack ==
    JustLoaded =>
        IF \/ thrown = <<"getItem">>
           \/ ~storage.present
           \/ storage.text \notin JsonTexts
        THEN state = initialRows
        ELSE state \in JsonValues /\ stringify(state) = storage.text

\* the slot held {not json and the page mounted with the fallback
C6_Witness ==
    /\ JustLoaded
    /\ storage = Slot(NotJson)
    /\ thrown = <<"parse">>
    /\ state = initialRows
    /\ pc = "mounted"

WellFormed(v) ==
    /\ v.kind = "array"
    /\ \A k \in 1..Len(v.items) : IsString(v.items[k].name) /\ IsString(v.items[k].mobile)

\* C7: after initialization the page has not crashed and the state is an
\* array of rows with a name and a mobile.
C7_UnexpectedShapeIsCorrupt ==
    lastOp.op = "initialize" => (pc # "crashed" /\ WellFormed(state))

\* C8: insertAfter(i) with -1 <= i < N yields N + 1 rows, the blank row at
\* position i + 1, the rows after i one position later, the rows up to i
\* where they were.
C8_InsertPosition ==
    LET i == lastOp.index
        old == prev.items
    IN  (lastOp.op = "insertAfter" /\ i >= 0 - 1 /\ i < Len(old)) =>
            /\ pc = "mounted"
            /\ Len(rows) = Len(old) + 1
            /\ rows[i + 2] = BlankRow
            /\ \A p \in 0..(Len(old) - 1) :
                 IF p > i THEN rows[p + 2] = old[p + 1] ELSE rows[p + 1] = old[p + 1]

\* scenario B: A, B becomes A, blank, B
C8_Witness ==
    /\ lastOp.op = "insertAfter"
    /\ lastOp.index = 0
    /\ prev.items = <<RowA, RowB>>
    /\ rows = <<RowA, BlankRow, RowB>>

OtherField(field) == IF field = "name" THEN "mobile" ELSE "name"

\* C9: editField(index, field, value) with an index in range keeps the
\* length, sets the field of the row at index, keeps its other field and
\* keeps every other row.
C9_EditFrame ==
    LET i == lastOp.index
        old == prev.items
    IN  (lastOp.op = "editField" /\ i >= 0 /\ i < Len(old)) =>
            /\ pc = "mounted"
            /\ Len(rows) = Len(old)
            /\ rows[i + 1][lastOp.field] = lastOp.value
            /\ rows[i + 1][OtherField(lastOp.field)] = old[i + 1][OtherField(lastOp.field)]
            /\ \A p \in 0..(Len(old) - 1) : p # i => rows[p + 1] = old[p + 1]

\* the name of the middle row of three was edited, its mobile kept
C9_Witness ==
    /\ lastOp = Op("editField", 1, "name", <<>>)
    /\ prev.items = <<RowB, Row(<<"A", "b">>, <<"A", "b">>), RowA>>
    /\ rows = <<RowB, RowB, RowA>>

\* C10: removeAt(index) with an index in range on more than one row removes
\* that row and moves the later rows one position down; on one row it
\* yields the single blank row.
C10_RemoveAt ==
    LET i == lastOp.index
        old == prev.items
    IN  (lastOp.op = "removeAt" /\ i >= 0 /\ i < Len(old)) =>
            /\ pc = "mounted"
            /\ IF Len(old) > 1
               THEN /\ Len(rows) = Len(old) - 1
                    /\ \A p \in 0..(Len(old) - 1) :
                         /\ p < i => rows[p + 1] = old[p + 1]
                         /\ p > i => rows[p] = old[p + 1]
               ELSE rows = <<BlankRow>>

\* the middle row of three was removed
C10_Witness ==
    /\ lastOp.op = "removeAt"
    /\ lastOp.index = 1
    /\ prev.items = <<RowA, BlankRow, RowB>>
    /\ rows = <<RowA, RowB>>


\* C11: removeLast on more than one row yields the rows but the last,
\* unchanged; on exactly one row it leaves the length and the row as they
\* were.
C11_RemoveLast ==
    LET old == prev.items
    IN  (lastOp.op = "removeLast" /\ pc = "mounted") =>
            IF Len(old) > 1
            THEN /\ Len(rows) = Len(old) - 1
                 /\ \A p \in 1..(Len(old) - 1) : rows[p] = old[p]
            ELSE /\ Len(rows) = 1
                 /\ rows[1].name = old[1].name
                 /\ rows[1].mobile = old[1].mobile

\* the last of three different rows was removed
C11_Witness ==
    /\ lastOp.op = "removeLast"
    /\ pc = "mounted"
    /\ prev.items = <<RowA, RowB, Row(<<"A", "b">>, <<"A", "b">>)>>
    /\ rows = <<RowA, RowB>>

\* C12: appendRow yields one row more, the last one blank, the old rows
\* first, unchanged and in order.
C12_AppendRow ==
    LET old == prev.items
    IN  (lastOp.op = "appendRow" /\ pc = "mounted") =>
            /\ Len(rows) = Len(old) + 1
            /\ rows[Len(rows)] = BlankRow
            /\ \A p \in 1..Len(old) : rows[p] = old[p]

\* a blank row was appended to two rows that are not blank
C12_Witness ==
    /\ lastOp.op = "appendRow"
    /\ pc = "mounted"
    /\ prev.items = <<RowB, RowA>>
    /\ rows = <<RowB, RowA, BlankRow>>


\* C13: the collection is never empty: no state the page renders, and no
\* value handed to the slot, is an array of length 0.
C13_NeverEmpty ==
    /\ pc = "mounted" => Len(rows) >= 1
    /\ \A k \in 1..Len(saveLog) : Len(saveLog[k].items) >= 1


\* C14: with localStorage working, when a mutation handler runs no save is
\* pending and the slot holds the serialization of the state the handler
\* starts from; and whenever the slot changes it becomes the serialization
\* of the state held at that moment, never of an older one.
C14_SavedBeforeNextMutation ==
    [][/\ (lastOp'.op \in Mutations /\ saveLog' = <<>>) =>
            /\ effects = <<>>
            /\ storage = Slot(stringify(state))
       /\ storage' # storage => storage' = Slot(stringify(state'))]_vars

\* a handler has just replaced a two-row state that the slot holds
C14_Witness ==
    /\ pc = "mounted"
    /\ lastOp.op = "removeAt"
    /\ effects = <<"save">>
    /\ saveLog = <<>>
    /\ prev.items = <<RowA, RowB>>
    /\ rows = <<RowB>>
    /\ storage = Slot(stringify(prev))


OccursIgnoringCase(q, s) ==
    \E off \in 0..(Len(s) - Len(q)) :
        \A j \in 1..Len(q) : lowerChar(s[off + j]) = lowerChar(q[j])

Alice == <<"A", "l", "i", "c", "e">>

AliceMobile == <<"5", "5", "5", "-", "1", "2", "3", "4">>

\* scenario A: two appendRow, then the name and the mobile of row 1 are set
ScenarioA ==
    changeUpdater(
        changeUpdater(addRowUpdater(addRowUpdater(<<BlankRow>>)), 1, "name", Alice),
        1, "mobile", AliceMobile)

\* C16: under a query that is not empty the view holds exactly the rows
\* whose name or mobile contains the query, case ignored, in the order of
\* the collection; in scenario A the query alice yields the one entry of
\* index 1.
C16_FilterExactness ==
    /\ (pc = "mounted" /\ filter # <<>>) =>
          /\ \A i \in 0..(Len(rows) - 1) :
               (i \in shown) <=>
                  \/ OccursIgnoringCase(filter, rows[i + 1].name)
                  \/ OccursIgnoringCase(filter, rows[i + 1].mobile)
          /\ \A k \in 1..(Len(filtered) - 1) : filtered[k]._i < filtered[k + 1]._i
    /\ Len(ScenarioA) = 3
    /\ filteredOf(ScenarioA, <<"a", "l", "i", "c", "e">>)
          = <<[name |-> Alice, mobile |-> AliceMobile, _i |-> 1]>>

\* the query B shows the row with the mobile Ab and the row with the name
\* Ab, and not the blank row
C16_Witness ==
    /\ pc = "mounted"
    /\ filter = <<"B">>
    /\ rows = <<RowB, RowA, BlankRow>>
    /\ shown = {0, 1}
    /\ lastOp.op = "filter"


\* C17: a handler called with an index out of range leaves the collection
\* as it was: editField and removeAt with index < 0 or index >= length,
\* insertAfter with index < -1 or index >= length.
C17_OutOfRangeIsNoOp ==
    LET i == lastOp.index
        old == prev.items
    IN  /\ (lastOp.op \in {"editField", "removeAt"} /\ (i < 0 \/ i >= Len(old))) =>
              (pc = "mounted" /\ rows = old)
        /\ (lastOp.op = "insertAfter" /\ (i < 0 - 1 \/ i >= Len(old))) =>
              (pc = "mounted" /\ rows = old)


\* C18: an edit of a mobile stores the value typed, valid or not, and the
\* slot holds it once the edit is over; no mutation is refused or altered on
\* account of a mobile that is not valid: a row is appended, the last row
\* removed, whatever the cells hold.
C18_ValidationIsAdvisory ==
    LET i == lastOp.index
        old == prev.items
    IN  /\ lastOp.op \in Mutations => pc = "mounted"
        /\ lastOp.op = "editField" =>
              /\ rows[i + 1][lastOp.field] = lastOp.value
              /\ Idle => /\ parse(storage.text).ok
                         /\ parse(storage.text).value.items[i + 1][lastOp.field] = lastOp.value
        /\ lastOp.op = "appendRow" => Len(rows) = Len(old) + 1
        /\ (lastOp.op = "removeLast" /\ Len(old) > 1) => Len(rows) = Len(old) - 1

\* the mobile abc, which is not valid, is in the state and in the slot
C18_Witness ==
    /\ Idle
    /\ lastOp = Op("editField", 0, "mobile", <<"a", "b", "c">>)
    /\ ~validMobile(lastOp.value)
    /\ rows[1].mobile = <<"a", "b", "c">>
    /\ storage = Slot(stringify(state))

Digits == {"0", "1", "2", "3", "4", "5", "6", "7", "8", "9"}

\* 3 to 20 characters, each a digit, +, -, a parenthesis or a space
ThreeToTwentyPhoneChars(v) ==
    /\ Len(v) \in 3..20
    /\ \A k \in 1..Len(v) : v[k] \in Digits \cup {"+", "-", "(", ")", " "}

\* C19: validMobile holds of exactly the mobiles of 3 to 20 characters that
\* are digits, +, -, parentheses and spaces; it holds of +1 (555) 123-4567
\* and not of abc nor of the empty string; the hint is shown for exactly the
\* mobiles that are not empty and not valid.
C19_ValidMobile ==
    /\ pc = "mounted" =>
          \A k \in 1..Len(rows) :
              /\ validMobile(rows[k].mobile) <=> ThreeToTwentyPhoneChars(rows[k].mobile)
              /\ showsHint(rows[k]) <=>
                    (rows[k].mobile # <<>> /\ ~ThreeToTwentyPhoneChars(rows[k].mobile))
    /\ validMobile(PhoneExample)
    /\ ~validMobile(<<"a", "b", "c">>)
    /\ ~validMobile(<<>>)

\* a valid mobile without the hint, a mobile of 21 digits with it, a blank
\* mobile without it
C19_Witness ==
    /\ pc = "mounted"
    /\ Len(rows) = 2
    /\ rows[1].mobile = PhoneExample
    /\ ~showsHint(rows[1])
    /\ Len(rows[2].mobile) = 21
    /\ showsHint(rows[2])
    /\ lastOp.op = "editField"


\* C20: a change of the query leaves the rows and the slot as they were and
\* schedules and runs no save; a mutation leaves the query as it was; the
\* query of a page opened again is the empty string, whatever it was.
C20_FilterEphemeral ==
    [][ /\ lastOp'.op = "filter" =>
              /\ state' = state
              /\ storage' = storage
              /\ effects' = <<>>
              /\ saveLog' = <<>>
        /\ lastOp'.op \in Mutations => filter' = filter
        /\ (pc' = "unloaded" \/ pc = "unloaded") => filter' = <<>> ]_vars

\* the query B typed over two saved rows
C20_Witness ==
    /\ pc = "mounted"
    /\ lastOp = Op("filter", 0, "", <<"B">>)
    /\ filter = <<"B">>
    /\ Len(rows) = 2
    /\ shown # {0, 1}
    /\ prev = state
    /\ storage = Slot(stringify(state))


\* the slot is absent, empty or not the text of a value
AbsentOrCorrupt(slot) == ~slot.present \/ slot.text = <<>> \/ ~parse(slot.text).ok

\* C21: with localStorage working, the first save after the mount writes the
\* state the page was loaded with, no mutation needed: over a slot that is
\* absent or corrupt it writes the single blank row and the slot no longer
\* holds what it held; and once the effects of the mount have run the slot
\* is the serialization of the state.
C21_InitializationWrites ==
    [][ /\ (lastOp.op = "initialize" /\ pc = "mounted" /\ saveLog = <<>> /\ saveLog' # <<>>) =>
              /\ storage' = Slot(stringify(state))
              /\ AbsentOrCorrupt(storage) =>
                    /\ storage' = Slot(stringify(initialRows))
                    /\ storage' # storage
        /\ (lastOp'.op = "initialize" /\ pc' = "mounted" /\ effects' = <<>>) =>
              /\ saveLog' # <<>>
              /\ storage' = Slot(stringify(state')) ]_vars

\* {not json has been replaced by the single blank row, no mutation made
C21_Witness ==
    /\ Idle
    /\ lastOp.op = "initialize"
    /\ thrown = <<"parse">>
    /\ saveLog = <<initialRows>>
    /\ state = initialRows
    /\ storage = Slot(stringify(initialRows))
    /\ storage # Slot(NotJson)


\* C22: a save that does not throw leaves in the slot the serialization of
\* the whole state, from which a load returns that state, whatever saves
\* threw before it; the slot always holds the last value a save stored; the
\* page opened again, getItem working, starts from that value, and so not
\* from the state it held when that state is not what the slot holds.
C22_CatchUp ==
    [][ /\ (Len(saveLog') > Len(saveLog) /\ thrown' = thrown) =>
              /\ storage' = Slot(stringify(state'))
              /\ \A fb \in Fallbacks : load(storage', fb, FALSE) = state'
              /\ written' = <<[snap |-> state', late |-> outage]>>
        /\ written' # <<>> => storage' = Slot(stringify(written'[1].snap))
        /\ (lastOp.op = "reload" /\ thrown' # <<"getItem">>) =>
              (written # <<>> =>
                  /\ state' = written[1].snap
                  /\ storage # Slot(stringify(prev)) => state' # prev) ]_vars

\* the edit of the first row was saved with the row appended after it, by
\* the first save that did not throw
C22_Witness ==
    /\ Idle
    /\ lastOp.op = "appendRow"
    /\ prev = Arr(<<RowA>>)
    /\ state = Arr(<<RowA, BlankRow>>)
    /\ saveLog = <<state>>
    /\ thrown = <<>>
    /\ written = <<[snap |-> state, late |-> TRUE]>>
    /\ storage = Slot(stringify(state))


\* C23: every index a rendered row binds into its handlers is an index of
\* the collection, 0 <= index < length; an edit, an insert-after and a
\* remove issued from the page were applied to a collection the index was
\* in, and did what they do to an index in range.
C23_IndicesInRange ==
    /\ pc = "mounted" => \A i \in shown : 0 <= i /\ i < Len(rows)
    /\ lastOp.op \in {"editField", "insertAfter", "removeAt"} =>
          /\ 0 <= lastOp.index
          /\ lastOp.index < Len(prev.items)
    /\ (pc = "mounted" /\ lastOp.op = "editField") =>
          /\ Len(rows) = Len(prev.items)
          /\ rows[lastOp.index + 1][lastOp.field] = lastOp.value
    /\ (pc = "mounted" /\ lastOp.op = "insertAfter") =>
          /\ Len(rows) = Len(prev.items) + 1
          /\ rows[lastOp.index + 2] = BlankRow
    /\ (pc = "mounted" /\ lastOp.op = "removeAt" /\ Len(prev.items) > 1) =>
          Len(rows) = Len(prev.items) - 1

\* an insert after the last row, the only row the query B shows
C23_Witness ==
    /\ pc = "mounted"
    /\ filter = <<"B">>
    /\ lastOp = Op("insertAfter", 1, "", <<>>)
    /\ prev.items = <<BlankRow, RowA>>
    /\ rows = <<BlankRow, RowA, BlankRow>>
    /\ shown = {1}


\* C24: while the query is not empty no row of the view is blank; an insert
\* after row i issued under such a query leaves the view with the same
\* records in the same order, the new row i + 1 not among them, each record
\* that was at an index above i now one index higher and the others at the
\* index they had.
C24_InsertUnderFilter ==
    (pc = "mounted" /\ filter # <<>>) =>
        /\ \A k \in 1..Len(filtered) :
             ~(filtered[k].name = <<>> /\ filtered[k].mobile = <<>>)
        /\ lastOp.op = "insertAfter" =>
             LET old == filteredOf(prev.items, filter)
                 i == lastOp.index
             IN  /\ Len(filtered) = Len(old)
                 /\ (i + 1) \notin shown
                 /\ \A k \in 1..Len(old) :
                      /\ filtered[k].name = old[k].name
                      /\ filtered[k].mobile = old[k].mobile
                      /\ filtered[k]._i = IF old[k]._i > i THEN old[k]._i + 1
                                          ELSE old[k]._i

\* a row inserted between the two rows the query B shows
C24_Witness ==
    /\ pc = "mounted"
    /\ filter = <<"B">>
    /\ lastOp = Op("insertAfter", 0, "", <<>>)
    /\ prev.items = <<RowA, RowB>>
    /\ rows = <<RowA, BlankRow, RowB>>
    /\ shown = {0, 2}


\* C25: an appendRow followed by a removeLast, and an insertAfter(i) with
\* -1 <= i < length followed by a removeAt(i + 1), give back the collection
\* they started from; a removeLast followed by an appendRow gives it back
\* only when it had more than one row and its last row was blank.
C25_RoundTrips ==
    [][ /\ (lastOp.op = "appendRow" /\ lastOp'.op = "removeLast" /\ Len(prev.items) >= 1) =>
              state' = prev
        /\ ( /\ lastOp.op = "insertAfter"
             /\ lastOp.index >= 0 - 1
             /\ lastOp.index < Len(prev.items)
             /\ Len(prev.items) >= 1
             /\ lastOp' = Op("removeAt", lastOp.index + 1, "", <<>>) ) =>
              state' = prev
        /\ (lastOp.op = "removeLast" /\ lastOp'.op = "appendRow") =>
              (state' = prev <=>
                  (Len(prev.items) > 1 /\ prev.items[Len(prev.items)] = BlankRow)) ]_vars

\* the row inserted at the front by insertAfter(-1) has been removed by
\* removeAt(0)
C25_Witness ==
    /\ Idle
    /\ lastOp = Op("removeAt", 0, "", <<>>)
    /\ prev.items = <<BlankRow, RowA, RowB>>
    /\ rows = <<RowA, RowB>>
    /\ storage = Slot(stringify(state))


\* the handler of an event has just run
Handled == effects = <<>> /\ lastOp'.op \in Mutations /\ prev' = state

\* C26: an edit made a second time leaves the collection as the first left
\* it; two edits of different cells give the collection the same two edits
\* give in the other order; two edits of the same cell give the collection
\* the second alone gives.
C26_EditAlgebra ==
    [][ (Handled /\ lastOp.op = "editField" /\ lastOp'.op = "editField" /\ pc' = "mounted") =>
           LET c == prev.items
               i == lastOp.index
               f == lastOp.field
               v == lastOp.value
               j == lastOp'.index
               g == lastOp'.field
               w == lastOp'.value
           IN  /\ lastOp' = lastOp => state' = state
               /\ (i # j \/ f # g) =>
                     rows' = changeUpdater(changeUpdater(c, j, g, w), i, f, v)
               /\ (i = j /\ f = g) => rows' = changeUpdater(c, j, g, w) ]_vars

\* the name of the first row, then the mobile of the second
C26_Witness ==
    /\ Idle
    /\ lastOp = Op("editField", 1, "mobile", <<"A", "b">>)
    /\ prev.items = <<RowA, BlankRow>>
    /\ rows = <<RowA, RowB>>

====
